---------------------------- MODULE Spec2Model ----------------------------
(***************************************************************************)
(* Model of the git utilities of g-1-repo/util (src/node/git-utils.ts and  *)
(* the GitOperations class): the repository reader (getChangedFiles,       *)
(* getRecentCommits) and the change classifier                             *)
(* (analyzeChangesForVersionBump, analyzeFileChanges,                      *)
(* analyzeCommitMessages).                                                 *)
(*                                                                         *)
(* Strings are TLA+ strings; the regular expressions of the source are     *)
(* written out with the string operators below.                            *)
(***************************************************************************)
EXTENDS Integers, Sequences, FiniteSets, TLC

VARIABLES
    history,     \* commit subjects reachable from HEAD, most recent first
    tagAt,       \* number of commits the most recent tag covers; 0 = no tag
    unstaged,    \* paths reported by `git diff --name-only HEAD`
    staged,      \* paths reported by `git diff --cached --name-only`
    pc,          \* "idle" | "analyzed" | "listed"
    analysis,    \* the VersionAnalysis returned by analyzeChangesForVersionBump
    recent,      \* the last getRecentCommits call: [count, commits]
    repo,        \* "ok" | "norepo" (not a repository) | "nogit" (git missing)
    result,      \* the outcome of the last call of a reader or version function
    version,     \* the version string of package.json: [text, numbers, op,
                 \* input], numbers being the integers it was written from
    changelog,   \* CHANGELOG.md: [file, prior, origin, calls], a file being
                 \* its lines and <<>> when it does not exist
    retryState,  \* a call of retry: its position, attempts, waits and outcome
    idCache,     \* nanoIdCache: [keys, requested]
    tags,        \* the names printed by `git tag -l`
    release      \* a run of the release script

vars == <<history, tagAt, unstaged, staged, pc, analysis, recent,
          repo, result, version, changelog, retryState, idCache, tags, release>>

-----------------------------------------------------------------------------
(* Bounds *)

MaxCommits == 2     \* commits in the history of the classifier runs
MaxFiles   == 2     \* paths reported by the two diff queries together
MaxHistory == 11    \* commits in the history of the getRecentCommits runs
MaxCount   == 3     \* largest explicit count passed to getRecentCommits
MaxPart    == 10    \* largest component of a version read from package.json
MaxCalls   == 2     \* calls of updateChangelog on one file
MaxAttempts == 3    \* largest maxAttempts passed to retry
MaxKeys    == 3     \* keys held by the generator cache

-----------------------------------------------------------------------------
(* String helpers: what RegExp.prototype.test needs *)

Min(a, b) == IF a < b THEN a ELSE b

Range(s) == {s[i] : i \in 1..Len(s)}

CharAt(s, i) == SubSeq(s, i, i)

UpperAlpha == "ABCDEFGHIJKLMNOPQRSTUVWXYZ"
LowerAlpha == "abcdefghijklmnopqrstuvwxyz"

\* case folding of one character, as the `i` flag of a RegExp compares
LowerChar(c) ==
    IF \E i \in 1..26 : CharAt(UpperAlpha, i) = c
    THEN CharAt(LowerAlpha, CHOOSE i \in 1..26 : CharAt(UpperAlpha, i) = c)
    ELSE c

RECURSIVE ToLower(_)
ToLower(s) ==
    IF Len(s) = 0 THEN ""
    ELSE LowerChar(CharAt(s, 1)) \o ToLower(SubSeq(s, 2, Len(s)))

\* the literal lit occurs in s at position i
At(s, i, lit) ==
    /\ i >= 1
    /\ i + Len(lit) - 1 <= Len(s)
    /\ SubSeq(s, i, i + Len(lit) - 1) = lit

Contains(s, lit)   == \E i \in 1..Len(s) : At(s, i, lit)
StartsWith(s, lit) == At(s, 1, lit)
EndsWith(s, lit)   == At(s, Len(s) - Len(lit) + 1, lit)

\* /^word[\(:]/ on an already lower-cased subject
Header(s, word) ==
    /\ StartsWith(s, word)
    /\ Len(s) > Len(word)
    /\ CharAt(s, Len(word) + 1) \in {"(", ":"}


-----------------------------------------------------------------------------
(* The inputs the runs draw from *)

\* commit subjects
Subjects ==
    { "feat!: remove legacy API",
      "feat(api)!: add x",
      "fix: null pointer",
      "chore: bump deps",
      "fix!: add error code",
      "Breaking Change: drop v1",
      "feat: add login",
      "docs: update readme",
      "test: cover parser",
      "wip" }

\* commit subjects of the long histories of the getRecentCommits runs
LogSubjects == { "fix: null pointer", "chore: bump deps" }

\* repository paths, in the order git lists them (sorted by byte value)
PathOrder ==
    << "LICENSE", "README.md", "package.json", "src/app.css",
       "src/foo.test.ts", "src/foo.ts", "tsconfig.json" >>

Paths == Range(PathOrder)

-----------------------------------------------------------------------------
(* analyzeChangesForVersionBump: the category decision *)

BlankChars == {" ", "\t", "-", "_"}

\* /BREAKING[\s\-_]*CHANGE/i on a lower-cased subject
BreakingChangeToken(lc) ==
    \E i \in 1..Len(lc) :
        /\ At(lc, i, "breaking")
        /\ \E j \in (i + 8)..Len(lc) :
              /\ At(lc, j, "change")
              /\ \A k \in (i + 8)..(j - 1) : CharAt(lc, k) \in BlankChars

\* breakingIndicators[i].test(commit)
BreakingTest(i, commit) ==
    LET lc == ToLower(commit) IN
    CASE i = 1 -> BreakingChangeToken(lc)
      [] i = 2 -> StartsWith(lc, "feat!:")
      [] i = 3 -> StartsWith(lc, "fix!:")
      [] i = 4 -> Contains(commit, "!:")
      [] i = 5 -> Contains(lc, "breaking")

breakingIndicators == 1..5

\* the subjects some breaking indicator matches, evaluated once
BreakingSubjects ==
    {c \in Subjects : \E i \in breakingIndicators : BreakingTest(i, c)}

\* featureIndicators[i].test(commit)
FeatureTest(i, commit) ==
    LET lc == ToLower(commit) IN
    CASE i = 1 -> \/ Header(lc, "feat")
                  \/ Header(lc, "feature")
                  \/ Header(lc, "add")
                  \/ Contains(lc, "new feature")
      [] i = 2 -> StartsWith(lc, "enhancement")

featureIndicators == 1..2

\* the subjects some feature indicator matches, evaluated once
FeatureSubjects ==
    {c \in Subjects : \E i \in featureIndicators : FeatureTest(i, c)}

\* majorChanges with every() in place of some()
majorChanges_every(commits) ==
    \A k \in 1..Len(commits) : commits[k] \in BreakingSubjects

\* majorChanges that looks at the most recent commit only
majorChanges_first(commits) ==
    Len(commits) > 0 /\ commits[1] \in BreakingSubjects

\* commits.some(commit => breakingIndicators.some(p => p.test(commit)))
majorChanges(commits) ==
    \E k \in 1..Len(commits) : commits[k] \in BreakingSubjects

\* commits.some(commit => featureIndicators.some(p => p.test(commit)))
minorChanges(commits) ==
    \E k \in 1..Len(commits) : commits[k] \in FeatureSubjects

BreakingDesc == "**BREAKING CHANGES**: Major updates that may require code changes"
FallbackDesc == "General improvements and bug fixes"

\* DecideBump with the feature check ahead of the breaking check
DecideBump_minorFirst(commits) ==
    IF minorChanges(commits)
    THEN [versionBump |-> "minor", changeType |-> "Minor Changes",
          changesList |-> <<>>]
    ELSE IF majorChanges(commits)
    THEN [versionBump |-> "major", changeType |-> "Major Changes",
          changesList |-> <<BreakingDesc>>]
    ELSE [versionBump |-> "patch", changeType |-> "Patch Changes",
          changesList |-> <<>>]

\* DecideBump that forgets to set changeType in the minor branch
DecideBump_staleLabel(commits) ==
    IF majorChanges(commits)
    THEN [versionBump |-> "major", changeType |-> "Major Changes",
          changesList |-> <<BreakingDesc>>]
    ELSE IF minorChanges(commits)
    THEN [versionBump |-> "minor", changeType |-> "Patch Changes",
          changesList |-> <<>>]
    ELSE [versionBump |-> "patch", changeType |-> "Patch Changes",
          changesList |-> <<>>]

\* the if / else-if that sets versionBump, changeType and the first entry
DecideBump(commits) ==
    IF majorChanges(commits)
    THEN [versionBump |-> "major", changeType |-> "Major Changes",
          changesList |-> <<BreakingDesc>>]
    ELSE IF minorChanges(commits)
    THEN [versionBump |-> "minor", changeType |-> "Minor Changes",
          changesList |-> <<>>]
    ELSE [versionBump |-> "patch", changeType |-> "Patch Changes",
          changesList |-> <<>>]

-----------------------------------------------------------------------------
(* analyzeFileChanges *)

\* /src\/.*\.(ts|js|tsx|jsx)$/ and its like: "src/" somewhere, the suffix
\* at the end, the two not overlapping
SrcWithSuffix(file, suffix) ==
    \E i \in 1..Len(file) :
        /\ At(file, i, "src/")
        /\ EndsWith(file, suffix)
        /\ i + 4 <= Len(file) - Len(suffix) + 1

FileDescs ==
    << "Update source code and functionality",
       "Update styling and design",
       "Update dependencies and package configuration",
       "Update TypeScript configuration",
       "Update documentation",
       "Improve testing coverage",
       "Update configuration files" >>

\* patterns[i].pattern.test(file) of analyzeFileChanges
FileTest(i, file) ==
    LET lf == ToLower(file) IN
    CASE i = 1 -> \E sfx \in {".ts", ".js", ".tsx", ".jsx"} : SrcWithSuffix(file, sfx)
      [] i = 2 -> SrcWithSuffix(file, ".css") \/ SrcWithSuffix(file, ".scss")
      [] i = 3 -> EndsWith(file, "package.json")
      [] i = 4 -> EndsWith(file, "tsconfig.json")
      [] i = 5 -> EndsWith(file, "README.md")
      [] i = 6 -> Contains(lf, "test") \/ Contains(lf, "spec")
      [] i = 7 -> Contains(lf, "config")

\* the table entries whose pattern each path matches, evaluated once
FileMatches ==
    [p \in Paths |-> {i \in 1..Len(FileDescs) : FileTest(i, p)}]

RECURSIVE FileLoop(_, _, _)
\* for (const pattern of patterns) if (files.some(...)) changes.push(desc)
FileLoop(files, i, changes) ==
    IF i > Len(FileDescs) THEN changes
    ELSE FileLoop(files, i + 1,
            IF \E k \in 1..Len(files) : i \in FileMatches[files[k]]
            THEN Append(changes, FileDescs[i])
            ELSE changes)

RECURSIVE FileLoopByFile(_, _, _)
\* the file table scanned file by file instead of entry by entry
FileLoopByFile(files, k, changes) ==
    IF k > Len(files) THEN changes
    ELSE FileLoopByFile(files, k + 1,
            changes \o SelectSeq(FileDescs,
                LAMBDA d : /\ d \notin Range(changes)
                           /\ \E i \in FileMatches[files[k]] : FileDescs[i] = d))

\* analyzeFileChanges with the loops exchanged
analyzeFileChanges_byFile(files) == FileLoopByFile(files, 1, <<>>)

\* analyzeFileChanges where a file counts for its first matching entry only
analyzeFileChanges_firstMatch(files) ==
    SelectSeq(FileDescs,
        LAMBDA d : \E k \in 1..Len(files) :
            /\ FileMatches[files[k]] # {}
            /\ \E i \in FileMatches[files[k]] :
                  /\ FileDescs[i] = d
                  /\ \A j \in FileMatches[files[k]] : i <= j)

analyzeFileChanges(files) == FileLoop(files, 1, <<>>)

-----------------------------------------------------------------------------
(* analyzeCommitMessages *)

CommitDescs ==
    << "Fix bugs and resolve issues",
       "Add new features and functionality",
       "Improve visual design and user experience",
       "Enhance performance and optimization",
       "Refactor code for better maintainability",
       "Update documentation",
       "Improve testing coverage",
       "General maintenance and updates",
       "Address security improvements" >>

AnyOf(lc, words) == \E w \in words : Contains(lc, w)

\* FeatEntry with /^feat/ in place of /^feat[\(:]/
FeatEntry_anyFeat(lc) ==
    StartsWith(lc, "feat") \/ AnyOf(lc, {"feature", "add"})

\* /^feat[\(:]|feature|add/i on a lower-cased subject
FeatEntry(lc) == Header(lc, "feat") \/ AnyOf(lc, {"feature", "add"})

\* patterns[i].pattern.test(commit) of analyzeCommitMessages (all with /i)
CommitTest(i, commit) ==
    LET lc == ToLower(commit) IN
    CASE i = 1 -> Header(lc, "fix") \/ AnyOf(lc, {"bug", "error", "issue"})
      [] i = 2 -> FeatEntry(lc)
      [] i = 3 -> Header(lc, "style") \/ AnyOf(lc, {"css", "design", "ui", "ux"})
      [] i = 4 -> Header(lc, "perf") \/ AnyOf(lc, {"performance", "optimization", "speed"})
      [] i = 5 -> Header(lc, "refactor") \/ AnyOf(lc, {"cleanup", "reorganize"})
      [] i = 6 -> Header(lc, "docs") \/ AnyOf(lc, {"documentation", "readme"})
      [] i = 7 -> Header(lc, "test") \/ AnyOf(lc, {"testing", "spec"})
      [] i = 8 -> Header(lc, "chore") \/ AnyOf(lc, {"maintenance", "update"})
      [] i = 9 -> AnyOf(lc, {"security", "vulnerability", "cve"})

\* the table entries whose pattern each subject matches, evaluated once
CommitMatches ==
    [c \in Subjects |-> {i \in 1..Len(CommitDescs) : CommitTest(i, c)}]

\* Takes without the matchedPatterns test
Takes_repeat(commit, matchedPatterns) == CommitMatches[commit]

\* the inner loop: the entries i at which the `if` of line 259 is taken
Takes(commit, matchedPatterns) ==
    {i \in CommitMatches[commit] : CommitDescs[i] \notin matchedPatterns}

\* the inner loop over the table, left at the first entry taken (break);
\* 0 when the loop runs to the end of the table
InnerLoop(commit, matchedPatterns) ==
    LET taken == Takes(commit, matchedPatterns) IN
    IF taken = {} THEN 0
    ELSE CHOOSE i \in taken : \A j \in taken : i <= j

RECURSIVE CommitLoop(_, _, _, _)
\* for (const commit of commits) { for (const pattern of patterns) ... }
CommitLoop(commits, k, changes, matchedPatterns) ==
    IF k > Len(commits) THEN changes
    ELSE LET i == InnerLoop(commits[k], matchedPatterns) IN
         IF i = 0
         THEN CommitLoop(commits, k + 1, changes, matchedPatterns)
         ELSE CommitLoop(commits, k + 1, Append(changes, CommitDescs[i]),
                         matchedPatterns \cup {CommitDescs[i]})

analyzeCommitMessages(commits) == CommitLoop(commits, 1, <<>>, {})

-----------------------------------------------------------------------------
(* analyzeChangesForVersionBump: the description list *)

RECURSIVE DedupFrom(_, _, _)
DedupFrom(s, i, acc) ==
    IF i > Len(s) THEN acc
    ELSE DedupFrom(s, i + 1,
            IF s[i] \in Range(acc) THEN acc ELSE Append(acc, s[i]))

\* RemoveDuplicates without the Set
RemoveDuplicates_keepAll(list) == list

\* [...new Set(list)]: the values in first-insertion order
RemoveDuplicates(list) == DedupFrom(list, 1, <<>>)

\* WithFallback that pushes whatever the list holds
WithFallback_always(changesList) == Append(changesList, FallbackDesc)

\* WithFallback without the push
WithFallback_none(changesList) == changesList

\* if (changesList.length === 0) changesList.push(fallback)
WithFallback(changesList) ==
    IF Len(changesList) = 0 THEN <<FallbackDesc>> ELSE changesList

\* Pushes that leaves the tables out once the category is major
Pushes_shortCircuit(first, fileChanges, commitChanges) ==
    IF Len(first) > 0 THEN first
    ELSE first \o fileChanges \o commitChanges

\* Pushes with the commit table ahead of the file table
Pushes_commitsFirst(first, fileChanges, commitChanges) ==
    first \o commitChanges \o fileChanges

\* the changesList before the fallback and the Set: the pushes, in order
Pushes(first, fileChanges, commitChanges) ==
    first \o fileChanges \o commitChanges

\* the classifier, from the declarations of line 154 to the return
Classify(changedFiles, commits) ==
    LET d == DecideBump(commits)
        changesList == Pushes(d.changesList,
                              analyzeFileChanges(changedFiles),
                              analyzeCommitMessages(commits))
    IN  [versionBump  |-> d.versionBump,
         changeType   |-> d.changeType,
         changesList  |-> RemoveDuplicates(WithFallback(changesList)),
         changedFiles |-> changedFiles,
         commits      |-> commits]

-----------------------------------------------------------------------------
(* The reader: exec, getChangedFiles, getRecentCommits *)

\* output.split('\n') of a command that printed the given lines: no line
\* at all is the empty output, which splits into one empty string
Split(lines) == IF Len(lines) = 0 THEN <<"">> ELSE lines

\* .filter(Boolean) on strings: the empty string is dropped
FilterBoolean(lines) == SelectSeq(lines, LAMBDA l : l # "")

\* `git diff --name-only`: the differing paths, one per line, sorted
GitDiffNames(paths) == SelectSeq(PathOrder, LAMBDA p : p \in paths)

\* getChangedFiles without the Set
getChangedFiles_noSet(unstagedPaths, stagedPaths) ==
    FilterBoolean(Split(GitDiffNames(unstagedPaths)))
        \o FilterBoolean(Split(GitDiffNames(stagedPaths)))

getChangedFiles(unstagedPaths, stagedPaths) ==
    LET changedFiles == FilterBoolean(Split(GitDiffNames(unstagedPaths)))
        stagedFiles  == FilterBoolean(Split(GitDiffNames(stagedPaths)))
    IN  RemoveDuplicates(changedFiles \o stagedFiles)

HeadTilde    == 10    \* the "HEAD~10" echoed when git describe finds no tag
DefaultCount == 10    \* count: number = 10

\* git describe --tags --abbrev=0 2>/dev/null || echo "HEAD~10"
LastTag(tagged) == IF tagged > 0 THEN "tag" ELSE "HEAD~10"

\* git log ${lastTag}..HEAD --pretty=format:"%s": the subjects of the
\* commits of a linear history hist (most recent first) that lastTag does
\* not reach; the command fails when lastTag names no commit
GitLogRange(hist, tagged, lastTag) ==
    IF lastTag = "tag"
    THEN [ok |-> TRUE, lines |-> SubSeq(hist, 1, Len(hist) - tagged)]
    ELSE IF Len(hist) > HeadTilde
    THEN [ok |-> TRUE, lines |-> SubSeq(hist, 1, HeadTilde)]
    ELSE [ok |-> FALSE, lines |-> <<>>]

\* git log -${count} --pretty=format:"%s"
GitLogCount(hist, count) == SubSeq(hist, 1, Min(count, Len(hist)))

getRecentCommits(hist, tagged, count) ==
    LET lastTag == LastTag(tagged)
        range   == GitLogRange(hist, tagged, lastTag)
        commitMessages == IF range.ok THEN range.lines
                          ELSE GitLogCount(hist, count)
    IN  FilterBoolean(Split(commitMessages))

\* analyzeChangesForVersionBump(): the two reader calls, then the classifier
analyzeChangesForVersionBump(hist, tagged, unstagedPaths, stagedPaths) ==
    Classify(getChangedFiles(unstagedPaths, stagedPaths),
             getRecentCommits(hist, tagged, DefaultCount))

-----------------------------------------------------------------------------
(* exec and the reader accessors as calls that return or throw *)

NoError == [name |-> "none", message |-> ""]

\* the stderr text of git in a directory that is no repository, and of the
\* shell when git is not installed
Diagnostic(r) ==
    IF r = "norepo" THEN "fatal: not a git repository"
    ELSE "git: command not found"

\* the error execSync throws for a command that exits non-zero
ProcessError(r) == [name |-> "Error", message |-> Diagnostic(r)]

\* execSync(command) of a git command that prints the given lines
ExecSync(r, lines) ==
    IF r = "ok"
    THEN [ok |-> TRUE, lines |-> lines, error |-> NoError]
    ELSE [ok |-> FALSE, lines |-> <<>>, error |-> ProcessError(r)]

\* exec that returns '' for every failure, whatever ignoreErrors is
exec_swallow(run, ignoreErrors) ==
    IF run.ok
    THEN [threw |-> FALSE, value |-> run.lines, error |-> NoError]
    ELSE [threw |-> FALSE, value |-> <<>>, error |-> NoError]

\* exec(command, options): the output, the rethrown error, or '' when
\* options.ignoreErrors is set
exec(run, ignoreErrors) ==
    IF run.ok
    THEN [threw |-> FALSE, value |-> run.lines, error |-> NoError]
    ELSE IF ~ignoreErrors
    THEN [threw |-> TRUE, value |-> <<>>, error |-> run.error]
    ELSE [threw |-> FALSE, value |-> <<>>, error |-> NoError]

Returned(value, commands) ==
    [threw |-> FALSE, value |-> value, error |-> NoError, commands |-> commands]

Thrown(error, commands) ==
    [threw |-> TRUE, value |-> <<>>, error |-> error, commands |-> commands]

CurrentBranch == "main"

\* getCurrentBranch()
getCurrentBranchFn(r) ==
    LET e == exec(ExecSync(r, <<CurrentBranch>>), FALSE) IN
    IF e.threw THEN Thrown(e.error, 1)
    ELSE Returned(IF Len(e.value) = 0 THEN "" ELSE e.value[1], 1)

\* hasUncommittedChanges(): git status --porcelain prints one line per
\* changed path
hasUncommittedChangesFn(r, unstagedPaths, stagedPaths) ==
    LET e == exec(ExecSync(r, GitDiffNames(unstagedPaths \cup stagedPaths)), FALSE) IN
    IF e.threw THEN Thrown(e.error, 1)
    ELSE Returned(Len(e.value) > 0, 1)

\* getChangedFiles(): the second query runs only when the first returned
getChangedFilesFn(r, unstagedPaths, stagedPaths) ==
    LET e1 == exec(ExecSync(r, GitDiffNames(unstagedPaths)), FALSE)
        e2 == exec(ExecSync(r, GitDiffNames(stagedPaths)), FALSE)
    IN  IF e1.threw THEN Thrown(e1.error, 1)
        ELSE IF e2.threw THEN Thrown(e2.error, 2)
        ELSE Returned(getChangedFiles(unstagedPaths, stagedPaths), 2)

\* getRecentCommits(count): both commands run with ignoreErrors; outside a
\* repository the shell echoes HEAD~10 and both git log commands fail
getRecentCommitsFn(r, hist, tagged, count) ==
    LET log == exec(ExecSync(r, getRecentCommits(hist, tagged, count)), TRUE) IN
    IF log.threw THEN Thrown(log.error, 2)
    ELSE Returned(FilterBoolean(Split(log.value)), 2)

\* isGitRepository without the try / catch
isGitRepositoryFn_noCatch(r) ==
    LET e == exec(ExecSync(r, <<"On branch main">>), FALSE) IN
    IF e.threw THEN Thrown(e.error, 1) ELSE Returned(TRUE, 1)

\* isGitRepository(): try { exec('git status') ; true } catch { false }
isGitRepositoryFn(r) ==
    LET e == exec(ExecSync(r, <<"On branch main">>), FALSE) IN
    Returned(~e.threw, 1)

\* createGitError that drops the underlying message
createGitError_noCause(message, error) ==
    [name |-> "GitError", message |-> message, code |-> "GIT_ERROR"]

\* GitOperations.createGitError(message, error)
createGitError(message, error) ==
    [name |-> "GitError",
     message |-> message \o ": " \o error.message,
     code |-> "GIT_ERROR"]

\* try { ... } catch (error) { throw this.createGitError(message, error) }
Wrapped(outcome, message) ==
    IF outcome.threw
    THEN Thrown(createGitError(message, outcome.error), outcome.commands)
    ELSE outcome

ReaderOps ==
    {"isGitRepository", "getCurrentBranch", "hasUncommittedChanges",
     "getChangedFiles", "getRecentCommits"}

\* the message each GitOperations method gives createGitError
FailureMessage(op) ==
    CASE op = "getCurrentBranch" -> "Failed to get current branch"
      [] op = "hasUncommittedChanges" -> "Failed to check uncommitted changes"
      [] op = "getChangedFiles" -> "Failed to get changed files"

\* the standalone functions
FunctionCall(op, r, hist, tagged, unstagedPaths, stagedPaths) ==
    CASE op = "isGitRepository" -> isGitRepositoryFn(r)
      [] op = "getCurrentBranch" -> getCurrentBranchFn(r)
      [] op = "hasUncommittedChanges" ->
            hasUncommittedChangesFn(r, unstagedPaths, stagedPaths)
      [] op = "getChangedFiles" -> getChangedFilesFn(r, unstagedPaths, stagedPaths)
      [] op = "getRecentCommits" -> getRecentCommitsFn(r, hist, tagged, DefaultCount)

\* the GitOperations methods (this.git is never set): the same commands,
\* inside try / catch except in isGitRepository and getRecentCommits
MethodCall(op, r, hist, tagged, unstagedPaths, stagedPaths) ==
    LET outcome == FunctionCall(op, r, hist, tagged, unstagedPaths, stagedPaths) IN
    IF op \in {"isGitRepository", "getRecentCommits"} THEN outcome
    ELSE Wrapped(outcome, FailureMessage(op))

\* AnalyzeCall that goes on with no changed files when the reader throws
AnalyzeCall_ignoreErrors(r, hist, tagged, unstagedPaths, stagedPaths) ==
    LET files == getChangedFilesFn(r, unstagedPaths, stagedPaths) IN
    IF files.threw
    THEN Returned(Classify(<<>>,
                      getRecentCommitsFn(r, hist, tagged, DefaultCount).value), 3)
    ELSE Returned(analyzeChangesForVersionBump(hist, tagged, unstagedPaths, stagedPaths), 4)

\* analyzeChangesForVersionBump() as a call: the error of getChangedFiles
\* leaves the function before anything is classified
AnalyzeCall(r, hist, tagged, unstagedPaths, stagedPaths) ==
    LET files == getChangedFilesFn(r, unstagedPaths, stagedPaths) IN
    IF files.threw THEN files
    ELSE Returned(analyzeChangesForVersionBump(hist, tagged, unstagedPaths, stagedPaths), 4)

-----------------------------------------------------------------------------
(* incrementVersion *)

Digits == "0123456789"

\* the value of a decimal digit character
DigitValue(c) == CHOOSE d \in 0..9 : CharAt(Digits, d + 1) = c

RECURSIVE Number(_)
\* Number(s) of a string of decimal digits; Number('') is 0
Number(s) ==
    IF Len(s) = 0 THEN 0
    ELSE Number(SubSeq(s, 1, Len(s) - 1)) * 10 + DigitValue(CharAt(s, Len(s)))

RECURSIVE SplitOn(_, _)
\* s.split(sep) for a separator of one character
SplitOn(s, sep) ==
    LET cuts == {i \in 1..Len(s) : CharAt(s, i) = sep} IN
    IF cuts = {} THEN <<s>>
    ELSE LET i == CHOOSE c \in cuts : \A d \in cuts : c <= d
         IN  <<SubSeq(s, 1, i - 1)>> \o SplitOn(SubSeq(s, i + 1, Len(s)), sep)

\* the rendering that keeps only the last digit
NumberToString_lastDigit(n) == CharAt(Digits, (n % 10) + 1)

RECURSIVE NumberToString(_)
\* ${n} of a non-negative integer below 2^53: its decimal digits
NumberToString(n) ==
    IF n < 10 THEN CharAt(Digits, n + 1)
    ELSE NumberToString(n \div 10) \o CharAt(Digits, (n % 10) + 1)

\* parts[i] ?? 0
OrZero(parts, i) == IF i <= Len(parts) THEN parts[i] ELSE 0

\* version.split('.').map(Number) and the three components read from it
ParseVersion(v) ==
    LET split == SplitOn(v, ".")
        parts == [i \in 1..Len(split) |-> Number(split[i])]
    IN  [major |-> OrZero(parts, 1), minor |-> OrZero(parts, 2),
         patch |-> OrZero(parts, 3)]

\* `${major}.${minor}.${patch}`
Serialize(major, minor, patch) ==
    NumberToString(major) \o "." \o NumberToString(minor) \o "." \o NumberToString(patch)

\* incrementVersion whose 'minor' keeps the patch component
incrementVersion_keepPatch(v, type) ==
    LET parts == ParseVersion(v) IN
    CASE type = "major" -> NumberToString(parts.major + 1) \o ".0.0"
      [] type = "minor" -> Serialize(parts.major, parts.minor + 1, parts.patch)
      [] OTHER -> Serialize(parts.major, parts.minor, parts.patch + 1)

\* incrementVersion(version, type)
incrementVersion(v, type) ==
    LET parts == ParseVersion(v) IN
    CASE type = "major" -> NumberToString(parts.major + 1) \o ".0.0"
      [] type = "minor" ->
            NumberToString(parts.major) \o "." \o NumberToString(parts.minor + 1) \o ".0"
      [] OTHER -> Serialize(parts.major, parts.minor, parts.patch + 1)

-----------------------------------------------------------------------------
(* updateChangelog: a text is the list of its lines, text.split('\n') *)

\* existsSync(changelogPath) is false: no lines at all
Missing == <<>>

\* line.trim() === ''
IsBlank(line) == \A i \in 1..Len(line) : CharAt(line, i) \in {" ", "\t"}

\* lines.findIndex(line => line.startsWith('# ')), counted from 1; 0 for -1
FirstHeadingIndex(lines) ==
    LET headings == {i \in 1..Len(lines) : StartsWith(lines[i], "# ")} IN
    IF headings = {} THEN 0
    ELSE CHOOSE i \in headings : \A j \in headings : i <= j

\* InsertIndex that goes to the end of the file
InsertIndex_end(lines, at) == Len(lines)

RECURSIVE InsertIndex(_, _)
\* the while loop over the empty lines that follow the heading: the number
\* of lines in front of the place of insertion
InsertIndex(lines, at) ==
    IF at < Len(lines) /\ IsBlank(lines[at + 1])
    THEN InsertIndex(lines, at + 1)
    ELSE at

\* splice(insertIndex, 1, newEntry): a line is replaced
Splice_replace(lines, at, entry) ==
    SubSeq(lines, 1, at) \o entry \o SubSeq(lines, at + 2, Len(lines))

\* lines.splice(insertIndex, 0, newEntry) and lines.join('\n'), as lines
Splice(lines, at, entry) ==
    SubSeq(lines, 1, at) \o entry \o SubSeq(lines, at + 1, Len(lines))

\* changesList.map(change => `- ${change}`).join('\n'), as lines
Bullets(changesList) ==
    IF Len(changesList) = 0 THEN <<"">>
    ELSE [i \in 1..Len(changesList) |-> "- " \o changesList[i]]

\* the template of newEntry, as lines: it ends with two line feeds
newEntry(v, changeType, changesList) ==
    <<"## " \o v, "", "### " \o changeType, "">> \o Bullets(changesList) \o <<"", "">>

\* a + b of two texts: the last line of a continues with the first of b
TextConcat(a, b) ==
    SubSeq(a, 1, Len(a) - 1) \o <<a[Len(a)] \o b[1]>> \o Tail(b)

\* '# Changelog\n\n'
NewChangelog == <<"# Changelog", "", "">>

\* updateChangelog(version, changeType, changesList): the file written
updateChangelog(file, v, changeType, changesList) ==
    LET text  == IF file # Missing THEN file ELSE NewChangelog
        entry == newEntry(v, changeType, changesList)
        firstHeadingIndex == FirstHeadingIndex(text)
    IN  IF firstHeadingIndex # 0
        THEN Splice(text, InsertIndex(text, firstHeadingIndex), entry)
        ELSE TextConcat(TextConcat(NewChangelog, entry), text)

-----------------------------------------------------------------------------
(* retry *)

DefaultBaseDelay == 1000    \* baseDelay: number = 1000

\* delayTime without the exponential
delayTime_constant(baseDelay, attempt) == baseDelay

\* const delayTime = baseDelay * 2 ** (attempt - 1)
delayTime(baseDelay, attempt) == baseDelay * 2 ^ (attempt - 1)

\* throw new Error('Max attempts reached')
MaxAttemptsReached == "Max attempts reached"

-----------------------------------------------------------------------------
(* generateId and its generator cache *)

DEFAULT_ALPHABET == "0123456789ABCDEFGHIJKLMNOPQRSTUVWXYZabcdefghijklmnopqrstuvwxyz"
DEFAULT_LENGTH   == 16

\* const cacheKey = `${alphabet}:${length}`
cacheKey(alphabet, length) == alphabet \o ":" \o NumberToString(length)

\* generateId without the fast path for the default parameters
generateId_noFastPath(keys, length, alphabet) ==
    LET key == cacheKey(alphabet, length) IN
    IF key \in Range(keys) THEN keys ELSE Append(keys, key)

\* generateId(length, alphabet): the keys of nanoIdCache after the call, in
\* insertion order
generateId(keys, length, alphabet) ==
    IF length = DEFAULT_LENGTH /\ alphabet = DEFAULT_ALPHABET THEN keys
    ELSE LET key == cacheKey(alphabet, length) IN
         IF key \in Range(keys) THEN keys ELSE Append(keys, key)

\* getCacheStats()
getCacheStats(keys) == [size |-> Len(keys), keys |-> keys]

-----------------------------------------------------------------------------
(* GitOperations.createTag *)

\* the error of execSync for a command that exits non-zero: the message is
\* 'Command failed: ' and the command, and the stderr text on a new line
\* when stderr is piped (silent), written here after " | "
CommandError(command, stderr) ==
    [name |-> "Error",
     message |-> "Command failed: " \o command
                    \o (IF stderr = "" THEN "" ELSE " | " \o stderr)]

\* `Tag ${tagName} already exists. Please use a different version or delete
\* the existing tag.`
TagExistsError(tagName) ==
    [name |-> "Error",
     message |-> "Tag " \o tagName \o " already exists. Please use a different"
                    \o " version or delete the existing tag."]

\* the tag command: annotated when a message is given
TagCommand(tagName, message) ==
    IF message # ""
    THEN "git tag -a " \o tagName \o " -m \"" \o message \o "\""
    ELSE "git tag " \o tagName

\* the catch block of createTag
CreateTagCatch(tagName, error, commands) ==
    IF Contains(error.message, "already exists")
    THEN Thrown(error, commands)
    ELSE Thrown(createGitError("Failed to create tag: " \o tagName, error), commands)

\* createTag(tagName, message) in a repository with the tags existing and
\* the history hist: git tag fails when HEAD names no commit
createTag(r, existing, hist, tagName, message) ==
    IF r # "ok"
    THEN CreateTagCatch(tagName, CommandError("git tag -l", Diagnostic(r)), 1)
    ELSE IF tagName \in existing
    THEN CreateTagCatch(tagName, TagExistsError(tagName), 1)
    ELSE IF Len(hist) = 0
    THEN CreateTagCatch(tagName, CommandError(TagCommand(tagName, message), ""), 2)
    ELSE Returned(tagName, 2)

-----------------------------------------------------------------------------
(* The release scripts: scripts/release.js and examples/release-script.ts *)

\* the prompts and the mutating steps of a script in the order of its
\* statements, with the confirmation after the version update
ScriptOrder_confirmLate(script) ==
    IF script = "release.js"
    THEN << "select", "confirmChangelog", "confirmPublish", "updateVersion",
            "confirm", "updateChangelog", "createTag", "commit", "pushTags",
            "publish", "done" >>
    ELSE << "select", "updateVersion", "confirm", "updateChangelog", "commit",
            "done" >>

\* the prompts and the mutating steps of a script in the order of its
\* statements; commitAndPush of release.js creates the tag, then commits and
\* pushes, then pushes the tags
ScriptOrder(script) ==
    IF script = "release.js"
    THEN << "select", "confirmChangelog", "confirmPublish", "confirm",
            "updateVersion", "updateChangelog", "createTag", "commit",
            "pushTags", "publish", "done" >>
    ELSE << "select", "confirm", "updateVersion", "updateChangelog", "commit",
            "done" >>

\* the statement that follows the one at position at
NextAt(script, at) ==
    LET order == ScriptOrder(script)
        i == CHOOSE k \in 1..Len(order) : order[k] = at
    IN  order[i + 1]

\* the label handed to updateChangelog, named after the selected bump
ChangelogLabel_selected(recommendation, selected) ==
    CASE selected = "major" -> "Major Changes"
      [] selected = "minor" -> "Minor Changes"
      [] OTHER -> "Patch Changes"

\* the second argument of the updateChangelog call: analysis.changeType
ChangelogLabel(recommendation, selected) == recommendation.changeType

\* changesList = ['Manual release - see commit history for details']
ManualChanges == <<"Manual release - see commit history for details">>

\* the commit message of the script
ReleaseMessage(script, newVersion, changesList) ==
    IF script = "release.js" THEN "chore: release v" \o newVersion
    ELSE "Release v" \o newVersion \o ": "
            \o (IF Len(changesList) > 0 THEN changesList[1]
                ELSE "General improvements")

-----------------------------------------------------------------------------
(* The state machine *)

NoAnalysis == [versionBump |-> "none", changeType |-> "none",
               changesList |-> <<>>, changedFiles |-> <<>>, commits |-> <<>>]

NoCall == [count |-> 0, commits |-> <<>>]

NoResult == [api |-> "none", op |-> "none", threw |-> FALSE,
             value |-> <<>>, error |-> NoError, commands |-> 0]

NoVersion == [text |-> "", numbers |-> <<>>, op |-> "none", input |-> ""]

NoChangelog == [file |-> Missing, prior |-> Missing, origin |-> Missing, calls |-> <<>>]

NoRetry == [phase |-> "none", maxAttempts |-> 0, baseDelay |-> 0, attempt |-> 0,
            calls |-> <<>>, waits |-> <<>>, inFlight |-> 0,
            outcome |-> [kind |-> "none", value |-> ""]]

EmptyCache == [keys |-> <<>>, requested |-> {}]

NoRelease ==
    [script |-> "none", at |-> "none", steps |-> <<>>, currentVersion |-> "",
     selected |-> "none", newVersion |-> "", changesList |-> <<>>,
     publish |-> FALSE, pushed |-> [commits |-> 0, tags |-> {}],
     before |-> <<>>]

Init ==
    /\ history = <<>>
    /\ tagAt = 0
    /\ unstaged = {}
    /\ staged = {}
    /\ pc = "idle"
    /\ analysis = NoAnalysis
    /\ recent = NoCall
    /\ repo = "ok"
    /\ result = NoResult
    /\ version = NoVersion
    /\ changelog = NoChangelog
    /\ retryState = NoRetry
    /\ idCache = EmptyCache
    /\ tags = {}
    /\ release = NoRelease

\* the user commits the index with subject s
GitCommit(s, maxLen) ==
    /\ pc = "idle"
    /\ Len(history) < maxLen
    /\ history' = <<s>> \o history
    /\ unstaged' = unstaged \ staged
    /\ staged' = {}
    /\ UNCHANGED <<tagAt, pc, analysis, recent, repo, result, version,
                 changelog, retryState, idCache, tags, release>>

\* the user tags HEAD
GitTag ==
    /\ pc = "idle"
    /\ Len(history) > 0
    /\ tagAt < Len(history)
    /\ tagAt' = Len(history)
    /\ UNCHANGED <<history, unstaged, staged, pc, analysis, recent, repo, result, version,
                 changelog, retryState, idCache, tags, release>>

\* the user edits a tracked file in the working tree
EditFile(p) ==
    /\ pc = "idle"
    /\ p \notin unstaged
    /\ Cardinality(unstaged) + Cardinality(staged) < MaxFiles
    /\ unstaged' = unstaged \cup {p}
    /\ UNCHANGED <<history, tagAt, staged, pc, analysis, recent, repo, result, version,
                 changelog, retryState, idCache, tags, release>>

\* git add p
StageFile(p) ==
    /\ pc = "idle"
    /\ p \in unstaged
    /\ p \notin staged
    /\ Cardinality(unstaged) + Cardinality(staged) < MaxFiles
    /\ staged' = staged \cup {p}
    /\ UNCHANGED <<history, tagAt, unstaged, pc, analysis, recent, repo, result, version,
                 changelog, retryState, idCache, tags, release>>

\* the user puts the working-tree file back to its HEAD content; the
\* staged change stays in the index
RestoreFile(p) ==
    /\ pc = "idle"
    /\ p \in unstaged
    /\ p \in staged
    /\ unstaged' = unstaged \ {p}
    /\ UNCHANGED <<history, tagAt, staged, pc, analysis, recent, repo, result, version,
                 changelog, retryState, idCache, tags, release>>

\* a call of analyzeChangesForVersionBump(): the recommendation, or the
\* error of the reader and no recommendation
AnalyzeChangesForVersionBump ==
    /\ pc \in {"idle", "analyzed"}
    /\ \E call \in {AnalyzeCall(repo, history, tagAt, unstaged, staged)} :
       IF call.threw
       THEN /\ pc' = "failed"
            /\ result' = [api |-> "function", op |-> "analyzeChangesForVersionBump",
                          threw |-> TRUE, value |-> <<>>, error |-> call.error,
                          commands |-> call.commands]
            /\ UNCHANGED analysis
       ELSE /\ pc' = "analyzed"
            /\ analysis' = call.value
            /\ UNCHANGED result
    /\ UNCHANGED <<history, tagAt, unstaged, staged, recent, repo, version,
                 changelog, retryState, idCache, tags, release>>

\* the working directory stops being a repository, or git is uninstalled
LoseRepository(kind) ==
    /\ pc = "idle"
    /\ repo = "ok"
    /\ repo' = kind
    /\ UNCHANGED <<history, tagAt, unstaged, staged, pc, analysis, recent, result, version,
                 changelog, retryState, idCache, tags, release>>

\* a call of a standalone reader function
CallFunction(op) ==
    /\ pc = "idle"
    /\ result' = [api |-> "function", op |-> op]
                    @@ FunctionCall(op, repo, history, tagAt, unstaged, staged)
    /\ pc' = "called"
    /\ UNCHANGED <<history, tagAt, unstaged, staged, analysis, recent, repo, version,
                 changelog, retryState, idCache, tags, release>>

\* a call of a GitOperations reader method
CallMethod(op) ==
    /\ pc = "idle"
    /\ result' = [api |-> "method", op |-> op]
                    @@ MethodCall(op, repo, history, tagAt, unstaged, staged)
    /\ pc' = "called"
    /\ UNCHANGED <<history, tagAt, unstaged, staged, analysis, recent, repo, version,
                 changelog, retryState, idCache, tags, release>>

\* a call of getRecentCommits(count)
GetRecentCommits(count) ==
    /\ pc = "idle"
    /\ recent' = [count |-> count,
                  commits |-> getRecentCommits(history, tagAt, count)]
    /\ pc' = "listed"
    /\ UNCHANGED <<history, tagAt, unstaged, staged, analysis, repo, result, version,
                 changelog, retryState, idCache, tags, release>>

Next ==
    \/ \E s \in Subjects : GitCommit(s, MaxCommits)
    \/ \E p \in Paths : EditFile(p)
    \/ \E p \in Paths : StageFile(p)
    \/ \E p \in Paths : RestoreFile(p)
    \/ AnalyzeChangesForVersionBump

Spec == Init /\ [][Next]_vars

\* the getRecentCommits runs: tags, and long histories of few subjects
Counts == (1..MaxCount) \cup {DefaultCount}

NextLog ==
    \/ \E s \in LogSubjects : GitCommit(s, MaxHistory)
    \/ GitTag
    \/ \E c \in Counts : GetRecentCommits(c)

SpecLog == Init /\ [][NextLog]_vars

\* the decimal numerals of 0, 1, 2, ... as they are written in a version
Numerals ==
    << "0", "1", "2", "3", "4", "5", "6", "7", "8", "9", "10", "11", "12",
       "13", "14", "15", "16", "17", "18", "19", "20" >>

\* the components a version in package.json is written with, each with the
\* integer it stands for: the numerals up to MaxPart and some with leading
\* zeros
PartTable ==
    {<<Numerals[n + 1], n>> : n \in 0..MaxPart}
        \cup {<<"00", 0>>, <<"01", 1>>, <<"010", 10>>}

\* getCurrentVersion(), once in a run: the version of package.json, written
\* with two or three components
ReadVersion(parts) ==
    /\ pc = "idle"
    /\ version.op = "none"
    /\ version' =
          [text |-> IF Len(parts) = 3
                    THEN parts[1][1] \o "." \o parts[2][1] \o "." \o parts[3][1]
                    ELSE parts[1][1] \o "." \o parts[2][1],
           numbers |-> [i \in 1..Len(parts) |-> parts[i][2]],
           op |-> "read", input |-> ""]
    /\ UNCHANGED <<history, tagAt, unstaged, staged, pc, analysis, recent, repo, result,
                 changelog, retryState, idCache, tags, release>>

\* incrementVersion(getCurrentVersion(), type)
IncrementVersion(type) ==
    /\ pc = "idle"
    /\ version.op = "read"
    /\ version' = [version EXCEPT !.text = incrementVersion(version.text, type),
                                  !.op = type, !.input = version.text]
    /\ UNCHANGED <<history, tagAt, unstaged, staged, pc, analysis, recent, repo, result,
                 changelog, retryState, idCache, tags, release>>

\* the version parsed as incrementVersion parses it and written again as it
\* writes it
RoundTrip ==
    /\ pc = "idle"
    /\ version.op = "read"
    /\ LET parts == ParseVersion(version.text) IN
       version' = [version EXCEPT
                      !.text = Serialize(parts.major, parts.minor, parts.patch),
                      !.op = "roundtrip", !.input = version.text]
    /\ UNCHANGED <<history, tagAt, unstaged, staged, pc, analysis, recent, repo, result,
                 changelog, retryState, idCache, tags, release>>

NextVersion ==
    \/ \E a, b, c \in PartTable : ReadVersion(<<a, b, c>>)
    \/ \E a, b \in PartTable : ReadVersion(<<a, b>>)
    \/ \E type \in {"major", "minor", "patch"} : IncrementVersion(type)
    \/ RoundTrip

SpecVersion == Init /\ [][NextVersion]_vars

\* the classifier runs of the order and file comparisons: fewer subjects
OrderSubjects ==
    { "feat!: remove legacy API", "feat(api)!: add x", "feat: add login",
      "fix: null pointer", "wip" }

NextOrder ==
    \/ \E s \in OrderSubjects : GitCommit(s, MaxCommits)
    \/ \E p \in Paths : EditFile(p)
    \/ \E p \in Paths : StageFile(p)
    \/ \E p \in Paths : RestoreFile(p)
    \/ AnalyzeChangesForVersionBump

SpecOrder == Init /\ [][NextOrder]_vars

\* the reader runs: a repository that can be lost, few subjects and paths
ReaderPaths == {"README.md", "src/foo.ts"}

NextReader ==
    \/ \E s \in LogSubjects : GitCommit(s, MaxCommits)
    \/ GitTag
    \/ \E p \in ReaderPaths : EditFile(p)
    \/ \E p \in ReaderPaths : StageFile(p)
    \/ \E p \in ReaderPaths : RestoreFile(p)
    \/ \E kind \in {"norepo", "nogit"} : LoseRepository(kind)
    \/ \E op \in ReaderOps : CallFunction(op)
    \/ \E op \in ReaderOps : CallMethod(op)
    \/ AnalyzeChangesForVersionBump

SpecReader == Init /\ [][NextReader]_vars

\* the changelog files a project comes with
InitialChangelogs ==
    { <<"# Changelog", "", "## 0.9.0", "", "### Patch Changes", "",
        "- Update documentation", "">>,
      <<"# Changelog", "## 0.9.0", "- old">>,
      <<"# Changelog">>,
      <<"Release notes", "", "# Changelog", "  ", "## 0.9.0", "">>,
      <<"## 0.9.0", "", "- old", "">>,
      <<"">>,
      <<"#Changelog", "", "## 0.9.0">>,
      <<"## 0.9.0", "", "# Notes", "", "- note">> }

ChangelogVersions == {"1.0.0", "1.1.0"}

ChangelogLabels == {"Patch Changes", "Minor Changes"}

ChangelogLists ==
    { <<>>, <<"Update documentation">>,
      <<"Fix bugs and resolve issues", "Update documentation">> }

\* CHANGELOG.md is in the project before the first call
WriteChangelog(lines) ==
    /\ changelog = NoChangelog
    /\ changelog' = [file |-> lines, prior |-> Missing, origin |-> lines,
                     calls |-> <<>>]
    /\ UNCHANGED <<history, tagAt, unstaged, staged, pc, analysis, recent, repo,
                 result, version, retryState, idCache, tags, release>>

\* a call of updateChangelog(version, changeType, changesList)
UpdateChangelog(v, changeType, changesList) ==
    /\ Len(changelog.calls) < MaxCalls
    /\ changelog' =
          [changelog EXCEPT
              !.file  = updateChangelog(changelog.file, v, changeType, changesList),
              !.prior = changelog.file,
              !.calls = Append(@, [version |-> v, changeType |-> changeType,
                                   changesList |-> changesList])]
    /\ UNCHANGED <<history, tagAt, unstaged, staged, pc, analysis, recent, repo,
                 result, version, retryState, idCache, tags, release>>

NextChangelog ==
    \/ \E lines \in InitialChangelogs : WriteChangelog(lines)
    \/ \E v \in ChangelogVersions, changeType \in ChangelogLabels,
          changesList \in ChangelogLists :
          UpdateChangelog(v, changeType, changesList)

SpecChangelog == Init /\ [][NextChangelog]_vars

RetryDelays == {0, 100, DefaultBaseDelay}

\* what fn resolves with and what it rejects with
FnValues == {"v1", "v2"}
FnErrors == {"E1", "E2"}

\* the head of the for loop: fn is invoked, or the loop is left
LoopHead(r, attempt) ==
    IF attempt <= r.maxAttempts
    THEN [r EXCEPT !.phase = "calling", !.attempt = attempt, !.inFlight = 1]
    ELSE [r EXCEPT !.phase = "rejected", !.attempt = attempt,
                   !.outcome = [kind |-> "rejected", value |-> MaxAttemptsReached]]

\* retry(fn, maxAttempts, baseDelay) is called
CallRetry(maxAttempts, baseDelay) ==
    /\ retryState.phase = "none"
    /\ retryState' = LoopHead([NoRetry EXCEPT !.maxAttempts = maxAttempts,
                                              !.baseDelay = baseDelay], 1)
    /\ UNCHANGED <<history, tagAt, unstaged, staged, pc, analysis, recent, repo,
                 result, version, changelog, idCache, tags, release>>

\* the promise of fn() is fulfilled: return await fn()
FnResolves(v) ==
    /\ retryState.phase = "calling"
    /\ retryState' =
          [retryState EXCEPT
              !.phase = "resolved", !.inFlight = 0,
              !.calls = Append(@, [ok |-> TRUE, value |-> v]),
              !.outcome = [kind |-> "resolved", value |-> v]]
    /\ UNCHANGED <<history, tagAt, unstaged, staged, pc, analysis, recent, repo,
                 result, version, changelog, idCache, tags, release>>

\* the promise of fn() is rejected: the catch block
FnRejects(error) ==
    /\ retryState.phase = "calling"
    /\ retryState' =
          IF retryState.attempt = retryState.maxAttempts
          THEN [retryState EXCEPT
                   !.phase = "rejected", !.inFlight = 0,
                   !.calls = Append(@, [ok |-> FALSE, value |-> error]),
                   !.outcome = [kind |-> "rejected", value |-> error]]
          ELSE [retryState EXCEPT
                   !.phase = "waiting", !.inFlight = 0,
                   !.calls = Append(@, [ok |-> FALSE, value |-> error]),
                   !.waits = Append(@, delayTime(retryState.baseDelay,
                                                 retryState.attempt))]
    /\ UNCHANGED <<history, tagAt, unstaged, staged, pc, analysis, recent, repo,
                 result, version, changelog, idCache, tags, release>>

\* the timer of delay(delayTime) fires: attempt++ and the loop goes on
DelayElapses ==
    /\ retryState.phase = "waiting"
    /\ retryState' = LoopHead(retryState, retryState.attempt + 1)
    /\ UNCHANGED <<history, tagAt, unstaged, staged, pc, analysis, recent, repo,
                 result, version, changelog, idCache, tags, release>>

NextRetry ==
    \/ \E maxAttempts \in 0..MaxAttempts, baseDelay \in RetryDelays :
          CallRetry(maxAttempts, baseDelay)
    \/ \E v \in FnValues : FnResolves(v)
    \/ \E error \in FnErrors : FnRejects(error)
    \/ DelayElapses

SpecRetry == Init /\ [][NextRetry]_vars

IdAlphabets == {DEFAULT_ALPHABET, "abc", "abc:1", "0123456789"}

IdLengths == {DEFAULT_LENGTH, 6, 1}

\* a call of generateId(length, alphabet); requested keeps the pairs asked
\* for since the cache was cleared
GenerateId(length, alphabet) ==
    /\ Len(generateId(idCache.keys, length, alphabet)) <= MaxKeys
    /\ idCache' = [keys |-> generateId(idCache.keys, length, alphabet),
                   requested |-> idCache.requested \cup {<<length, alphabet>>}]
    /\ UNCHANGED <<history, tagAt, unstaged, staged, pc, analysis, recent, repo,
                 result, version, changelog, retryState, tags, release>>

\* a call of clearCache()
ClearCache ==
    /\ idCache' = EmptyCache
    /\ UNCHANGED <<history, tagAt, unstaged, staged, pc, analysis, recent, repo,
                 result, version, changelog, retryState, tags, release>>

NextCache ==
    \/ \E length \in IdLengths, alphabet \in IdAlphabets : GenerateId(length, alphabet)
    \/ ClearCache

SpecCache == Init /\ [][NextCache]_vars

TagNames == {"v1.0.0", "v1.1.0"}

TagMessages == {"", "Release v1.0.0", "fix: tag already exists check"}

\* the user runs git tag <name> on HEAD
GitTagNamed(name) ==
    /\ pc = "idle"
    /\ repo = "ok"
    /\ Len(history) > 0
    /\ name \notin tags
    /\ tags' = tags \cup {name}
    /\ tagAt' = Len(history)
    /\ UNCHANGED <<history, unstaged, staged, pc, analysis, recent, repo,
                 result, version, changelog, retryState, idCache, release>>

\* a call of GitOperations.createTag(tagName, message)
CreateTag(tagName, message) ==
    /\ pc = "idle"
    /\ \E call \in {createTag(repo, tags, history, tagName, message)} :
          /\ result' = [api |-> "method", op |-> "createTag",
                        threw |-> call.threw,
                        value |-> [tagName |-> tagName, message |-> message,
                                   existed |-> tagName \in tags],
                        error |-> call.error, commands |-> call.commands]
          /\ tags' = IF call.threw THEN tags ELSE tags \cup {tagName}
          /\ tagAt' = IF call.threw THEN tagAt ELSE Len(history)
    /\ pc' = "called"
    /\ UNCHANGED <<history, unstaged, staged, analysis, recent, repo,
                 version, changelog, retryState, idCache, release>>

NextTag ==
    \/ \E s \in LogSubjects : GitCommit(s, MaxCommits)
    \/ \E name \in TagNames : GitTagNamed(name)
    \/ \E kind \in {"norepo", "nogit"} : LoseRepository(kind)
    \/ \E tagName \in TagNames, message \in TagMessages : CreateTag(tagName, message)

SpecTag == Init /\ [][NextTag]_vars

\* what the confirmation must leave alone
Snapshot ==
    [version |-> version.text, changelog |-> changelog.file, history |-> history,
     unstaged |-> unstaged, staged |-> staged, tags |-> tags,
     pushed |-> release.pushed]

\* the script runs up to its first prompt: the checks of the example script,
\* getCurrentVersion and analyzeChangesForVersionBump
StartRelease(script) ==
    /\ pc = "idle"
    /\ release.script = "none"
    /\ version.op = "read"
    /\ IF script = "example" /\ ~isGitRepositoryFn(repo).value
       THEN /\ release' = [release EXCEPT !.script = script, !.at = "exit1",
                                          !.before = Snapshot]
            /\ UNCHANGED <<pc, analysis>>
       ELSE IF script = "example"
               /\ ~hasUncommittedChangesFn(repo, unstaged, staged).value
       THEN /\ release' = [release EXCEPT !.script = script, !.at = "exit0",
                                          !.before = Snapshot]
            /\ UNCHANGED <<pc, analysis>>
       ELSE \E call \in {AnalyzeCall(repo, history, tagAt, unstaged, staged)} :
            IF call.threw
            THEN /\ release' = [release EXCEPT !.script = script, !.at = "exit1",
                                               !.before = Snapshot]
                 /\ UNCHANGED <<pc, analysis>>
            ELSE /\ release' = [release EXCEPT
                                   !.script = script, !.at = "select",
                                   !.currentVersion = version.text,
                                   !.changesList = call.value.changesList,
                                   !.before = Snapshot]
                 /\ analysis' = call.value
                 /\ pc' = "analyzed"
    /\ UNCHANGED <<history, tagAt, unstaged, staged, recent, repo, result,
                 version, changelog, retryState, idCache, tags>>

\* select(...): the user picks a bump type
Select(type) ==
    /\ release.at = "select"
    /\ release' = [release EXCEPT
                      !.selected = type,
                      !.newVersion = incrementVersion(release.currentVersion, type),
                      !.at = NextAt(release.script, "select")]
    /\ UNCHANGED <<history, tagAt, unstaged, staged, pc, analysis, recent, repo,
                 result, version, changelog, retryState, idCache, tags>>

\* confirm('Use automatically detected changes for changelog?')
ConfirmChangelog(useAutoChangelog) ==
    /\ release.at = "confirmChangelog"
    /\ release' = [release EXCEPT
                      !.changesList = IF useAutoChangelog THEN @ ELSE ManualChanges,
                      !.at = NextAt(release.script, "confirmChangelog")]
    /\ UNCHANGED <<history, tagAt, unstaged, staged, pc, analysis, recent, repo,
                 result, version, changelog, retryState, idCache, tags>>

\* confirm('Publish to npm after release?')
ConfirmPublish(shouldPublish) ==
    /\ release.at = "confirmPublish"
    /\ release' = [release EXCEPT !.publish = shouldPublish,
                                  !.at = NextAt(release.script, "confirmPublish")]
    /\ UNCHANGED <<history, tagAt, unstaged, staged, pc, analysis, recent, repo,
                 result, version, changelog, retryState, idCache, tags>>

\* the final confirmation: process.exit(0) when it is declined
Confirm(shouldProceed) ==
    /\ release.at = "confirm"
    /\ release' = [release EXCEPT
                      !.at = IF shouldProceed THEN NextAt(release.script, "confirm")
                             ELSE "cancelled"]
    /\ UNCHANGED <<history, tagAt, unstaged, staged, pc, analysis, recent, repo,
                 result, version, changelog, retryState, idCache, tags>>

\* updatePackageVersion(newVersion)
UpdatePackageVersionStep ==
    /\ release.at = "updateVersion"
    /\ version' = [version EXCEPT !.text = release.newVersion,
                                  !.op = "updated", !.input = version.text]
    /\ release' = [release EXCEPT !.steps = Append(@, "updatePackageVersion"),
                                  !.at = NextAt(release.script, "updateVersion")]
    /\ UNCHANGED <<history, tagAt, unstaged, staged, pc, analysis, recent,
                 repo, result, changelog, retryState, idCache, tags>>

\* updateChangelog(newVersion, analysis.changeType, changesList)
UpdateChangelogStep ==
    /\ release.at = "updateChangelog"
    /\ LET label == ChangelogLabel(analysis, release.selected) IN
       changelog' =
          [changelog EXCEPT
              !.file  = updateChangelog(changelog.file, release.newVersion, label,
                                        release.changesList),
              !.prior = changelog.file,
              !.calls = Append(@, [version |-> release.newVersion,
                                   changeType |-> label,
                                   changesList |-> release.changesList])]
    /\ release' = [release EXCEPT !.steps = Append(@, "updateChangelog"),
                                  !.at = NextAt(release.script, "updateChangelog")]
    /\ UNCHANGED <<history, tagAt, unstaged, staged, pc, analysis, recent,
                 repo, result, version, retryState, idCache, tags>>

\* commitAndPush(git, message, true) of release.js, first part: the tag
\* v<version of package.json>; a failure is a warning
CreateTagStep ==
    /\ release.at = "createTag"
    /\ \E call \in {createTag(repo, tags, history, "v" \o version.text,
                              "Release v" \o version.text)} :
          /\ tags' = IF call.threw THEN tags ELSE tags \cup {"v" \o version.text}
          /\ tagAt' = IF call.threw THEN tagAt ELSE Len(history)
          /\ release' = [release EXCEPT
                            !.steps = IF call.threw THEN Append(@, "warnTag")
                                      ELSE Append(@, "createTag"),
                            !.at = NextAt(release.script, "createTag")]
    /\ UNCHANGED <<history, unstaged, staged, pc, analysis, recent, repo,
                 result, version, changelog, retryState, idCache>>

\* git add . ; git commit -m message ; git push
CommitAndPushStep ==
    /\ release.at = "commit"
    /\ history' = <<ReleaseMessage(release.script, release.newVersion,
                                   analysis.changesList)>> \o history
    /\ unstaged' = {}
    /\ staged' = {}
    /\ release' = [release EXCEPT
                      !.steps = @ \o <<"add", "commit", "push">>,
                      !.pushed = [@ EXCEPT !.commits = Len(history) + 1],
                      !.at = NextAt(release.script, "commit")]
    /\ UNCHANGED <<tagAt, pc, analysis, recent, repo, result,
                 version, changelog, retryState, idCache, tags>>

\* git.pushTags()
PushTagsStep ==
    /\ release.at = "pushTags"
    /\ release' = [release EXCEPT
                      !.steps = Append(@, "pushTags"),
                      !.pushed = [@ EXCEPT !.tags = tags],
                      !.at = NextAt(release.script, "pushTags")]
    /\ UNCHANGED <<history, tagAt, unstaged, staged, pc, analysis, recent, repo,
                 result, version, changelog, retryState, idCache, tags>>

\* bun run build and npm publish, when asked for
PublishStep ==
    /\ release.at = "publish"
    /\ release' = [release EXCEPT
                      !.steps = IF release.publish THEN Append(@, "publish") ELSE @,
                      !.at = NextAt(release.script, "publish")]
    /\ UNCHANGED <<history, tagAt, unstaged, staged, pc, analysis, recent, repo,
                 result, version, changelog, retryState, idCache, tags>>

NextRelease ==
    \/ \E s \in {"feat: add login", "fix: null pointer"} : GitCommit(s, MaxCommits)
    \/ \E p \in {"README.md"} : EditFile(p)
    \/ \E name \in {"v1.1.2"} : GitTagNamed(name)
    \/ \E a, b, c \in {<<"1", 1>>, <<"9", 9>>} : ReadVersion(<<a, b, c>>)
    \/ \E lines \in InitialChangelogs :
          release.script = "none" /\ WriteChangelog(lines)
    \/ \E script \in {"release.js", "example"} : StartRelease(script)
    \/ \E type \in {"major", "minor", "patch"} : Select(type)
    \/ \E useAutoChangelog \in BOOLEAN : ConfirmChangelog(useAutoChangelog)
    \/ \E shouldPublish \in BOOLEAN : ConfirmPublish(shouldPublish)
    \/ \E shouldProceed \in BOOLEAN : Confirm(shouldProceed)
    \/ UpdatePackageVersionStep
    \/ UpdateChangelogStep
    \/ CreateTagStep
    \/ CommitAndPushStep
    \/ PushTagsStep
    \/ PublishStep

SpecRelease == Init /\ [][NextRelease]_vars

-----------------------------------------------------------------------------
(* Properties of the classifier *)

Analyzed == pc = "analyzed"

\* the subjects that contain "BREAKING CHANGE" in any letter case
BreakingChangeLiteral ==
    {c \in Subjects : Contains(ToLower(c), "breaking change")}

Some(list, set) == \E k \in 1..Len(list) : list[k] \in set

\* C1: versionBump is 'major' iff some commit subject matches a breaking
\* indicator, otherwise 'minor' iff some subject matches a feature indicator,
\* otherwise 'patch'; a subject containing "BREAKING CHANGE" in any letter
\* case forces 'major' whatever feature subjects are present.
C1_BumpFollowsIndicators ==
    Analyzed =>
        LET commits == analysis.commits
            bump    == analysis.versionBump
            breaking == Some(commits, BreakingSubjects)
            feature  == Some(commits, FeatureSubjects)
        IN  /\ bump \in {"major", "minor", "patch"}
            /\ (bump = "major") <=> breaking
            /\ (bump = "minor") <=> (~breaking /\ feature)
            /\ (bump = "patch") <=> (~breaking /\ ~feature)
            /\ Some(commits, BreakingChangeLiteral) => bump = "major"

\* a "Breaking Change" subject next to a feature subject, classified major
C1_Witness ==
    /\ Analyzed
    /\ Some(analysis.commits, BreakingChangeLiteral)
    /\ Some(analysis.commits, FeatureSubjects \ BreakingSubjects)
    /\ analysis.versionBump = "major"

\* the descriptions analyzeCommitMessages has collected after the first k
\* subjects of commits
CollectedAfter(commits, k) == Range(analyzeCommitMessages(SubSeq(commits, 1, k)))

\* what the k-th subject of commits adds to the descriptions
Contribution(commits, k) ==
    CollectedAfter(commits, k) \ CollectedAfter(commits, k - 1)

\* the first table entry, in table order, whose pattern the subject matches
FirstMatch(commit) ==
    CHOOSE i \in CommitMatches[commit] : \A j \in CommitMatches[commit] : i <= j

\* C2: each commit subject contributes only the description of the first
\* table entry it matches; when that entry was contributed by an earlier
\* commit it contributes nothing, never a later entry it also matches.
C2_FirstMatchOnly ==
    Analyzed =>
        \A k \in 1..Len(analysis.commits) :
            LET c == analysis.commits[k] IN
            Contribution(analysis.commits, k) \subseteq
                (IF CommitMatches[c] = {} THEN {}
                 ELSE {CommitDescs[FirstMatch(c)]})

\* C3: getRecentCommits(count) returns the subjects since the most recent
\* tag; with no tag it returns the most recent `count` subjects, for every
\* count and every length of the history.
C3_SinceTagOrCount ==
    pc = "listed" =>
        recent.commits =
            IF tagAt > 0
            THEN SubSeq(history, 1, Len(history) - tagAt)
            ELSE SubSeq(history, 1, Min(recent.count, Len(history)))

\* the file-table descriptions some changed file calls for
FileContributed(files) ==
    {FileDescs[i] : i \in UNION {FileMatches[files[k]] : k \in 1..Len(files)}}

RawList(a) ==
    WithFallback(Pushes(DecideBump(a.commits).changesList,
                        analyzeFileChanges(a.changedFiles),
                        analyzeCommitMessages(a.commits)))

\* the position of the first occurrence of d in list
FirstIndex(list, d) ==
    CHOOSE i \in 1..Len(list) : list[i] = d /\ \A j \in 1..(i - 1) : list[j] # d

SharedDescs == Range(FileDescs) \cap Range(CommitDescs)

C6_NoDuplicatesFirstSeen ==
    Analyzed =>
        LET cl  == analysis.changesList
            raw == RawList(analysis)
        IN  /\ \A i, j \in 1..Len(cl) : i # j => cl[i] # cl[j]
            /\ Range(cl) = Range(raw)
            /\ \A i, j \in 1..Len(cl) :
                  i < j => FirstIndex(raw, cl[i]) < FirstIndex(raw, cl[j])
            /\ \A d \in SharedDescs \cap FileContributed(analysis.changedFiles) :
                  FirstIndex(cl, d) = FirstIndex(raw, d)

\* C6: changesList holds no value twice and keeps the first-seen order of
\* the list as pushed (a description of both tables stays at its file-table
\* position); classifying the same snapshot again yields the same list.
C6_DedupStable ==
    /\ []C6_NoDuplicatesFirstSeen
    /\ [][Analyzed => analysis' = analysis]_vars

\* a description pushed by the file table and again by the commit table
C6_Witness ==
    /\ Analyzed
    /\ Len(RawList(analysis)) > Len(analysis.changesList)
    /\ \E d \in SharedDescs :
          /\ d \in FileContributed(analysis.changedFiles)
          /\ d \in Range(analyzeCommitMessages(analysis.commits))

FeatDesc == CommitDescs[2]

\* the subjects headed `feat!:` with no feature / add keyword
BangFeatOnly ==
    {c \in Subjects :
        LET lc == ToLower(c) IN
        /\ StartsWith(lc, "feat!:")
        /\ ~Contains(lc, "feature")
        /\ ~Contains(lc, "add")}

\* C7: commits ['feat!: remove legacy API'] with no changed files give
\* major / "Major Changes" with the breaking-change sentence and without
\* 'Add new features and functionality'; a `feat!:` subject with no
\* feature / add keyword never contributes the feature description.
C7_BangFeatNoFeatureDesc ==
    Analyzed =>
        LET commits == analysis.commits
            cl      == analysis.changesList
        IN  /\ (commits = <<"feat!: remove legacy API">> /\ analysis.changedFiles = <<>>) =>
                  /\ analysis.versionBump = "major"
                  /\ analysis.changeType = "Major Changes"
                  /\ BreakingDesc \in Range(cl)
                  /\ FeatDesc \notin Range(cl)
            /\ \A k \in 1..Len(commits) :
                  commits[k] \in BangFeatOnly =>
                      FeatDesc \notin Contribution(commits, k)
            /\ (\A k \in 1..Len(commits) : commits[k] \in BangFeatOnly) =>
                  FeatDesc \notin Range(cl)

\* Scenario B has been classified
C7_Witness ==
    /\ Analyzed
    /\ analysis.commits = <<"feat!: remove legacy API">>
    /\ analysis.changedFiles = <<>>
    /\ analysis.changesList = <<BreakingDesc>>

CommitOnly(a) ==
    Range(analyzeCommitMessages(a.commits)) \ FileContributed(a.changedFiles)

\* the commit subject that contributed d
ContributingCommit(commits, d) ==
    CHOOSE k \in 1..Len(commits) : d \in Contribution(commits, k)

\* the file-table descriptions of the list are in file-table order
FileTableOrder(a) ==
    LET cl == a.changesList
        fromFiles == FileContributed(a.changedFiles)
    IN  \A i, j \in 1..Len(cl) :
            (i < j /\ {cl[i], cl[j]} \subseteq fromFiles) =>
                FirstIndex(FileDescs, cl[i]) < FirstIndex(FileDescs, cl[j])

\* C9 as stated: file-table descriptions in file-table order and
\* commit-table descriptions in commit-table order.
C9_RuleTableOrder ==
    Analyzed =>
        LET cl == analysis.changesList
            commitOnly == CommitOnly(analysis)
        IN  /\ FileTableOrder(analysis)
            /\ \A i, j \in 1..Len(cl) :
                  (i < j /\ {cl[i], cl[j]} \subseteq commitOnly) =>
                      FirstIndex(CommitDescs, cl[i]) < FirstIndex(CommitDescs, cl[j])

\* C9 amended: file-table descriptions are in file-table order whatever the
\* order of the changed files; the descriptions of the commit table are in
\* the order of the commit subjects that contributed them.
C9_FileTableOrderCommitOrder ==
    Analyzed =>
        LET cl == analysis.changesList
            commitOnly == CommitOnly(analysis)
        IN  /\ FileTableOrder(analysis)
            /\ \A i, j \in 1..Len(cl) :
                  (i < j /\ {cl[i], cl[j]} \subseteq commitOnly) =>
                      ContributingCommit(analysis.commits, cl[i])
                          < ContributingCommit(analysis.commits, cl[j])

\* changed files listed against the file-table order and commit subjects
\* listed against the commit-table order
C9_Witness ==
    /\ Analyzed
    /\ analysis.changedFiles = <<"tsconfig.json", "README.md">>
    /\ analysis.commits = <<"chore: bump deps", "fix: null pointer">>
    /\ analysis.changesList =
          << FileDescs[4], FileDescs[5], FileDescs[7], CommitDescs[8], CommitDescs[1] >>

\* C10: when versionBump is 'major' the breaking-change description is the
\* first element; every file-table description precedes every description
\* only the commit table contributed; Scenario A gives patch and
\* [source code, fix bugs, general maintenance].
C10_BreakingFirstFilesBeforeCommits ==
    Analyzed =>
        LET cl == analysis.changesList
            commitOnly == CommitOnly(analysis)
            fromFiles  == FileContributed(analysis.changedFiles)
        IN  /\ analysis.versionBump = "major" =>
                  /\ cl[1] = BreakingDesc
                  /\ \A i \in 2..Len(cl) : cl[i] # BreakingDesc
            /\ \A i, j \in 1..Len(cl) :
                  (cl[i] \in commitOnly /\ cl[j] \in fromFiles) => j < i
            /\ (/\ analysis.commits = <<"fix: null pointer", "chore: bump deps">>
                /\ analysis.changedFiles = <<"src/foo.ts">>) =>
                  /\ analysis.versionBump = "patch"
                  /\ cl = << "Update source code and functionality",
                             "Fix bugs and resolve issues",
                             "General maintenance and updates" >>

\* Scenario A has been classified
C10_Witness ==
    /\ Analyzed
    /\ analysis.commits = <<"fix: null pointer", "chore: bump deps">>
    /\ analysis.changedFiles = <<"src/foo.ts">>
    /\ Len(analysis.changesList) = 3

\* how many times d occurs in list
Occurrences(list, d) == Cardinality({i \in 1..Len(list) : list[i] = d})

\* the changed files that match file-table entry i
FilesMatching(files, i) == {k \in 1..Len(files) : i \in FileMatches[files[k]]}

\* C11: each file-table entry, in table order, contributes its description
\* exactly once when some changed file matches its pattern and not at all
\* otherwise, however many files match it and whatever else they match.
C11_FileTableAnyMatchUnion ==
    Analyzed =>
        LET files == analysis.changedFiles
            fileChanges == analyzeFileChanges(files)
            cl == analysis.changesList
        IN  /\ \A i \in 1..Len(FileDescs) :
                  /\ Occurrences(fileChanges, FileDescs[i]) =
                        IF FilesMatching(files, i) # {} THEN 1 ELSE 0
                  /\ FilesMatching(files, i) # {} =>
                        Occurrences(cl, FileDescs[i]) = 1
            /\ \A a, b \in 1..Len(fileChanges) :
                  a < b => FirstIndex(FileDescs, fileChanges[a])
                              < FirstIndex(FileDescs, fileChanges[b])

\* two changed files match one entry and one of them matches a second entry
C11_Witness ==
    /\ Analyzed
    /\ \E i \in 1..Len(FileDescs) :
          Cardinality(FilesMatching(analysis.changedFiles, i)) >= 2
    /\ \E k \in 1..Len(analysis.changedFiles) :
          Cardinality(FileMatches[analysis.changedFiles[k]]) >= 2
    /\ Len(analyzeFileChanges(analysis.changedFiles)) = 2

\* C12: changeType is 'Major Changes' exactly when versionBump is 'major',
\* 'Minor Changes' exactly when 'minor', 'Patch Changes' exactly when 'patch'.
C12_LabelMatchesBump ==
    Analyzed =>
        /\ analysis.versionBump \in {"major", "minor", "patch"}
        /\ (analysis.changeType = "Major Changes") <=> (analysis.versionBump = "major")
        /\ (analysis.changeType = "Minor Changes") <=> (analysis.versionBump = "minor")
        /\ (analysis.changeType = "Patch Changes") <=> (analysis.versionBump = "patch")

\* a minor recommendation with its label
C12_Witness ==
    /\ Analyzed
    /\ analysis.versionBump = "minor"
    /\ analysis.changeType = "Minor Changes"

\* the orderings of the elements of list
Orderings(list) ==
    LET n == Len(list)
        bijections == {f \in [1..n -> 1..n] : \A a, b \in 1..n : a # b => f[a] # f[b]}
    IN  {[i \in 1..n |-> list[f[i]]] : f \in bijections}

\* the changed-file lists a snapshot is compared with
OtherFiles == {<<>>} \cup {<<p>> : p \in Paths}

\* C13: versionBump and changeType do not change when the commit subjects
\* are permuted nor when the changed files are replaced by any others.
C13_BumpIgnoresOrderAndFiles ==
    Analyzed =>
        \A commits \in Orderings(analysis.commits) :
            \A files \in OtherFiles \cup {analysis.changedFiles} :
                LET other == Classify(files, commits) IN
                /\ other.versionBump = analysis.versionBump
                /\ other.changeType = analysis.changeType

\* a major recommendation whose breaking subject is not the most recent
\* commit, with changed files
C13_Witness ==
    /\ Analyzed
    /\ Len(analysis.commits) >= 2
    /\ analysis.commits[1] \notin BreakingSubjects
    /\ analysis.versionBump = "major"
    /\ Len(analysis.changedFiles) > 0

\* C18: getChangedFiles returns the paths of the unstaged diff against HEAD
\* and of the staged diff, each path once, without empty lines; the empty
\* list when both report nothing.
C18_ChangedFilesUnion ==
    Analyzed =>
        LET files == analysis.changedFiles IN
        /\ Range(files) = unstaged \cup staged
        /\ \A a, b \in 1..Len(files) : a # b => files[a] # files[b]
        /\ "" \notin Range(files)
        /\ (unstaged = {} /\ staged = {}) => files = <<>>

\* a path that is both staged and unstaged
C18_Witness ==
    /\ Analyzed
    /\ unstaged \cap staged # {}
    /\ Len(analysis.changedFiles) = Cardinality(unstaged \cup staged)

-----------------------------------------------------------------------------
(* Properties of the reader accessors *)

Called == pc = "called"

RepositoryLost == repo # "ok"

FailingReaders == {"getCurrentBranch", "hasUncommittedChanges", "getChangedFiles"}

C15_ErrorVerbatim ==
    (Called /\ result.threw) =>
        /\ result.error = ProcessError(repo)
        /\ result.commands = 1

\* C15 amended: a standalone reader function that fails hands the caller the
\* error of the external command unchanged; a GitOperations method that
\* fails hands the caller a new GitError with code GIT_ERROR whose message is
\* the method's own text, ": ", and the message of the command's error.
\* Neither runs any command again.
C15_VerbatimOrWrapped ==
    (Called /\ result.threw) =>
        /\ result.commands = 1
        /\ result.api = "function" => result.error = ProcessError(repo)
        /\ result.api = "method" =>
                /\ result.error.name = "GitError"
                /\ result.error.code = "GIT_ERROR"
                /\ result.error.message =
                        FailureMessage(result.op) \o ": " \o Diagnostic(repo)
                /\ EndsWith(result.error.message, Diagnostic(repo))

C15_Witness ==
    /\ Called
    /\ result.threw
    /\ result.api = "method"
    /\ result.op = "getCurrentBranch"
    /\ repo = "nogit"

\* C16: isGitRepository never fails; it answers false exactly when the
\* underlying command fails.
C16_IsRepositoryNeverThrows ==
    (Called /\ result.op = "isGitRepository") =>
        /\ ~result.threw
        /\ result.value = ~RepositoryLost
        /\ result.error = NoError

C16_Witness ==
    /\ Called
    /\ result.op = "isGitRepository"
    /\ RepositoryLost
    /\ result.value = FALSE

Bumps == {"major", "minor", "patch"}

-----------------------------------------------------------------------------
(* Properties of incrementVersion *)

\* the numeral of a non-negative integer
Numeral(n) == Numerals[n + 1]

\* X.Y.Z written with numerals
Written(x, y, z) == Numeral(x) \o "." \o Numeral(y) \o "." \o Numeral(z)

\* the last operation was applied to a version of three components
OnThree(op) == version.op = op /\ Len(version.numbers) = 3

\* C19: for a version X.Y.Z of non-negative integers incrementVersion
\* returns (X+1).0.0 for 'major', X.(Y+1).0 for 'minor' and X.Y.(Z+1) for
\* 'patch'.
C19_IncrementLaw ==
    LET x == version.numbers[1]
        y == version.numbers[2]
        z == version.numbers[3]
    IN  /\ OnThree("major") => version.text = Written(x + 1, 0, 0)
        /\ OnThree("minor") => version.text = Written(x, y + 1, 0)
        /\ OnThree("patch") => version.text = Written(x, y, z + 1)

C19_Witness ==
    /\ OnThree("minor")
    /\ version.input = "1.9.3"
    /\ version.text = "1.10.0"

\* the version is X.Y.Z with each component written as its numeral, without
\* leading zeros
WellFormed(text, numbers) ==
    /\ Len(numbers) = 3
    /\ text = Written(numbers[1], numbers[2], numbers[3])

\* C20: parsing a well-formed X.Y.Z as incrementVersion does and writing
\* the three components joined by '.' gives the identical string.
C20_RoundTripIdentity ==
    (version.op = "roundtrip" /\ WellFormed(version.input, version.numbers)) =>
        version.text = version.input

C20_Witness ==
    /\ version.op = "roundtrip"
    /\ version.input = "10.0.9"
    /\ WellFormed(version.input, version.numbers)
    /\ version.text = "10.0.9"
-----------------------------------------------------------------------------
(* Properties of the fallback and of the commit table *)

\* some commit subject matches some commit-table entry
CommitTableMatched(commits) ==
    \E k \in 1..Len(commits) : CommitMatches[commits[k]] # {}

\* C25: the fallback entry is in changesList iff neither the breaking step,
\* the file table nor the commit table contributed; when present it is the
\* only element.
C25_FallbackIffNothingContributed ==
    Analyzed =>
        LET cl == analysis.changesList
            nothing == /\ ~Some(analysis.commits, BreakingSubjects)
                       /\ FileContributed(analysis.changedFiles) = {}
                       /\ ~CommitTableMatched(analysis.commits)
        IN  /\ (FallbackDesc \in Range(cl)) <=> nothing
            /\ FallbackDesc \in Range(cl) => cl = <<FallbackDesc>>

\* commits and changed files, none of which matches anything
C25_Witness ==
    /\ Analyzed
    /\ Len(analysis.commits) > 0
    /\ Len(analysis.changedFiles) > 0
    /\ analysis.changesList = <<FallbackDesc>>

\* C26: analyzeCommitMessages contributes at most one description per commit
\* subject and never the same description twice, so their number exceeds
\* neither the number of subjects nor the number of table entries.
C26_OnePerCommitNoRepeat ==
    Analyzed =>
        LET commits == analysis.commits
            changes == analyzeCommitMessages(commits)
        IN  /\ \A k \in 1..Len(commits) :
                  LET before == analyzeCommitMessages(SubSeq(commits, 1, k - 1))
                      after  == analyzeCommitMessages(SubSeq(commits, 1, k))
                  IN  /\ Len(after) - Len(before) \in {0, 1}
                      /\ SubSeq(after, 1, Len(before)) = before
            /\ \A a, b \in 1..Len(changes) : a # b => changes[a] # changes[b]
            /\ Range(changes) \subseteq Range(CommitDescs)
            /\ Len(changes) <= Len(commits)
            /\ Len(changes) <= Len(CommitDescs)

\* two subjects whose only entry is the same one: one description
C26_Witness ==
    /\ Analyzed
    /\ Len(analysis.commits) = 2
    /\ analysis.commits[1] # analysis.commits[2]
    /\ \A k \in 1..2 : CommitMatches[analysis.commits[k]] # {}
    /\ Len(analyzeCommitMessages(analysis.commits)) = 1
-----------------------------------------------------------------------------
(* Properties of updateChangelog *)

\* the section of a call stands in lines from line j on
SectionAt(lines, j, call) ==
    /\ j + 3 + Len(call.changesList) <= Len(lines)
    /\ lines[j] = "## " \o call.version
    /\ lines[j + 2] = "### " \o call.changeType
    /\ \A i \in 1..Len(call.changesList) :
          lines[j + 3 + i] = "- " \o call.changesList[i]

\* the lines that start with "# "
TopHeadings(lines) == {i \in 1..Len(lines) : StartsWith(lines[i], "# ")}

LastCall == changelog.calls[Len(changelog.calls)]

\* the last call found a file
UpdatedExisting == changelog.calls # <<>> /\ changelog.prior # Missing

\* C21: the new section (heading, subheading, one bullet per entry in order)
\* is inserted after the first line that starts with '# ' and every prior
\* line is still there in the same order; without such a line '# Changelog'
\* and the section are put in front of the unchanged prior content.
C21_SectionInsertedContentKept ==
    UpdatedExisting =>
        LET old == changelog.prior
            new == changelog.file
            n   == Len(new) - Len(old)
        IN  IF TopHeadings(old) # {}
            THEN \E i \in 1..Len(old) :
                    /\ \E h \in TopHeadings(old) :
                          h <= i /\ \A g \in TopHeadings(old) : h <= g
                    /\ n > 0
                    /\ SubSeq(new, 1, i) = SubSeq(old, 1, i)
                    /\ SectionAt(new, i + 1, LastCall)
                    /\ i + 3 + Len(LastCall.changesList) <= i + n
                    /\ SubSeq(new, i + n + 1, Len(new)) = SubSeq(old, i + 1, Len(old))
            ELSE /\ n > 0
                 /\ new[1] = "# Changelog"
                 /\ SectionAt(new, 3, LastCall)
                 /\ 6 + Len(LastCall.changesList) <= n + 1
                 /\ SubSeq(new, n + 1, Len(new)) = old

\* a section of two bullets put into a file whose heading is not its first
\* line
C21_Witness ==
    /\ UpdatedExisting
    /\ TopHeadings(changelog.prior) # {}
    /\ 1 \notin TopHeadings(changelog.prior)
    /\ Len(LastCall.changesList) = 2
    /\ Len(changelog.file) > Len(changelog.prior)

\* the lines that are headings of any level
Headings(lines) ==
    {i \in 1..Len(lines) :
        \E mark \in {"# ", "## ", "### "} : StartsWith(lines[i], mark)}

\* the file the calls started from is missing, or its first heading is a
\* top-level one
StartsWithTopHeading(origin) ==
    \/ origin = Missing
    \/ /\ Headings(origin) # {}
       /\ \E h \in TopHeadings(origin) : \A g \in Headings(origin) : h <= g

\* the "## " lines of a file, in order
SectionLines(lines) == SelectSeq(lines, LAMBDA l : StartsWith(l, "## "))

\* the "## " lines of the calls, the last call first
CallSections(calls) ==
    [k \in 1..Len(calls) |-> "## " \o calls[Len(calls) + 1 - k].version]

\* C27: after any sequence of updateChangelog calls on a file that was
\* missing or had a top-level first heading, the sections stand in reverse
\* call order, the last call's section directly under the top-level heading,
\* one '## ' section per call, repeated versions included.
C27_SectionsInReverseCallOrder ==
    (changelog.calls # <<>> /\ StartsWithTopHeading(changelog.origin)) =>
        LET file == changelog.file
            top  == CHOOSE h \in TopHeadings(file) : \A g \in TopHeadings(file) : h <= g
        IN  /\ TopHeadings(file) # {}
            /\ SectionLines(file) =
                  CallSections(changelog.calls) \o SectionLines(changelog.origin)
            /\ \E j \in (top + 1)..Len(file) :
                  /\ SectionAt(file, j, LastCall)
                  /\ \A i \in (top + 1)..(j - 1) : IsBlank(file[i])

\* the same version passed twice to a changelog that did not exist
C27_Witness ==
    /\ Len(changelog.calls) = 2
    /\ changelog.origin = Missing
    /\ changelog.calls[1].version = changelog.calls[2].version
    /\ Len(SectionLines(changelog.file)) = 2
-----------------------------------------------------------------------------
(* Properties of retry *)

\* the invocations of fn that failed
Failed(calls) == {k \in 1..Len(calls) : ~calls[k].ok}

\* C23: with maxAttempts >= 1, fn is invoked one call at a time and at most
\* maxAttempts times; the first success resolves retry and ends the calls;
\* maxAttempts failures reject with the last error; after failed attempt
\* k < maxAttempts the wait is baseDelay * 2^(k-1), and there is no wait after
\* the last failed attempt.
C23_RetryProtocol ==
    retryState.maxAttempts >= 1 =>
        LET r == retryState
            n == Len(r.calls)
        IN  /\ r.inFlight \in {0, 1}
            /\ n + r.inFlight <= r.maxAttempts
            /\ \A k \in 1..n : r.calls[k].ok => (k = n /\ r.phase = "resolved")
            /\ r.phase = "resolved" =>
                  /\ r.inFlight = 0
                  /\ r.calls[n].ok
                  /\ r.outcome = [kind |-> "resolved", value |-> r.calls[n].value]
            /\ r.phase = "rejected" =>
                  /\ r.inFlight = 0
                  /\ n = r.maxAttempts
                  /\ Failed(r.calls) = 1..n
                  /\ r.outcome = [kind |-> "rejected", value |-> r.calls[n].value]
                  /\ Len(r.waits) = n - 1
            /\ r.phase \in {"calling", "waiting", "resolved"} =>
                  Len(r.waits) = Cardinality(Failed(r.calls))
            /\ r.inFlight = 1 => Len(r.waits) = n
            /\ \A k \in 1..Len(r.waits) :
                  /\ k < r.maxAttempts
                  /\ r.waits[k] = r.baseDelay * 2 ^ (k - 1)

\* three failures with the default delay: waits of 1000 and 2000, the last
\* error handed on
C23_Witness ==
    /\ retryState.phase = "rejected"
    /\ retryState.maxAttempts = 3
    /\ retryState.waits = <<1000, 2000>>
    /\ retryState.calls[2].value = "E1"
    /\ retryState.outcome = [kind |-> "rejected", value |-> "E2"]
-----------------------------------------------------------------------------
(* Properties of the generator cache *)

\* the pairs asked for that are not the default length with the default
\* alphabet
CustomRequests ==
    {p \in idCache.requested : ~(p[1] = DEFAULT_LENGTH /\ p[2] = DEFAULT_ALPHABET)}

\* '<alphabet>:<length>'
KeyOf(p) == p[2] \o ":" \o Numeral(p[1])

\* C24: getCacheStats reports exactly one key '<alphabet>:<length>' for each
\* distinct non-default pair requested since the last clearCache; default
\* calls add nothing, repeated calls add nothing, clearCache leaves nothing.
C24_CacheHoldsCustomRequests ==
    LET stats == getCacheStats(idCache.keys) IN
    /\ stats.size = Cardinality(CustomRequests)
    /\ stats.size = Len(stats.keys)
    /\ Range(stats.keys) = {KeyOf(p) : p \in CustomRequests}
    /\ \A a, b \in 1..Len(stats.keys) : a # b => stats.keys[a] # stats.keys[b]
    /\ idCache.requested = {} => (stats.size = 0 /\ stats.keys = <<>>)

\* a default call and two custom calls whose keys both begin with "abc:1"
C24_Witness ==
    /\ <<DEFAULT_LENGTH, DEFAULT_ALPHABET>> \in idCache.requested
    /\ idCache.keys = <<"abc:16", "abc:1:6">>
    /\ Cardinality(idCache.requested) = 3
-----------------------------------------------------------------------------
(* Properties of createTag *)

CreateTagCalled == Called /\ result.op = "createTag"

\* C30: createTag raises an error saying that the tag already exists, as is
\* and without a tag command, whenever tagName is among the existing tags;
\* any other failure is wrapped as a GitError; a tag is created only when
\* tagName was absent.
C30_ExistsAsIsElseGitError ==
    CreateTagCalled =>
        /\ (result.value.existed /\ ~RepositoryLost) =>
              /\ result.threw
              /\ result.error = TagExistsError(result.value.tagName)
              /\ result.commands = 1
        /\ (result.threw /\ ~(result.value.existed /\ ~RepositoryLost)) =>
              result.error.name = "GitError"
        /\ ~result.threw =>
              /\ ~result.value.existed
              /\ result.value.tagName \in tags
-----------------------------------------------------------------------------
(* Properties of the release scripts *)

\* the position of a step in the log of steps; 0 when it was not taken
StepIndex(step) ==
    LET at == {k \in 1..Len(release.steps) : release.steps[k] = step} IN
    IF at = {} THEN 0 ELSE CHOOSE k \in at : TRUE

\* C22: release.js takes its mutating steps in the order of its help text:
\* package.json version, CHANGELOG.md, commit and push, and only then the
\* tag v<newVersion>; the tag is created after the release commit exists.
C22_TagAfterReleaseCommit ==
    (release.script = "release.js" /\ StepIndex("createTag") > 0) =>
        /\ StepIndex("updatePackageVersion") > 0
        /\ StepIndex("updatePackageVersion") < StepIndex("updateChangelog")
        /\ StepIndex("updateChangelog") < StepIndex("commit")
        /\ StepIndex("commit") < StepIndex("push")
        /\ StepIndex("push") < StepIndex("createTag")

\* C28: when the final confirmation is declined the script has modified
\* nothing: package.json, CHANGELOG.md, index, commits, tags and remote are
\* as they were when the script started.
C28_DeclineChangesNothing ==
    release.at = "cancelled" =>
        /\ release.steps = <<>>
        /\ Snapshot = release.before

\* a declined run of release.js after all the other prompts were answered
C28_Witness ==
    /\ release.at = "cancelled"
    /\ release.script = "release.js"
    /\ release.selected = "major"
    /\ release.publish
    /\ release.changesList = ManualChanges
    /\ unstaged # {}

\* C29: the subheading written to the changelog is analysis.changeType, the
\* label of the recommended category, while the new version follows the
\* selected bump type.
C29_LabelOfRecommendation ==
    StepIndex("updateChangelog") > 0 =>
        LET x == version.numbers[1]
            y == version.numbers[2]
            z == version.numbers[3]
        IN  /\ LastCall.changeType = analysis.changeType
            /\ SectionAt(changelog.file,
                         CHOOSE j \in 1..Len(changelog.file) :
                            changelog.file[j] = "## " \o release.newVersion,
                         [version |-> release.newVersion,
                          changeType |-> analysis.changeType,
                          changesList |-> release.changesList])
            /\ release.selected = "major" => LastCall.version = Written(x + 1, 0, 0)
            /\ release.selected = "minor" => LastCall.version = Written(x, y + 1, 0)
            /\ release.selected = "patch" => LastCall.version = Written(x, y, z + 1)

\* the user selects major against a patch recommendation
C29_Witness ==
    /\ StepIndex("updateChangelog") > 0
    /\ release.script = "release.js"
    /\ analysis.versionBump = "patch"
    /\ release.selected = "major"
    /\ LastCall.changeType = "Patch Changes"
    /\ LastCall.version = "2.0.0"
====
